---- MODULE Spec2Model ----
(***************************************************************************)
(* Model of Tree::edit / edit_tree (src/src/tree_sitter.cpp,               *)
(* src/src/edit_helper.cpp): a document (Tree) owning a source buffer and  *)
(* a tree-sitter tree handle applies batches of single-line edits, one     *)
(* Tree::edit call after another (the first may instead be a direct        *)
(* ts::edit_tree call with a caller-owned old tree), and may be assigned   *)
(* or swapped between calls.                                               *)
(* Text is a sequence of one-character strings.                            *)
(***************************************************************************)
EXTENDS Integers, Naturals, Sequences, FiniteSets, TLC

\* ---------------------------------------------------------------- bounds
MaxBatch == 3
MaxByte == 3
MaxCalls == 2
MaxAssigns == 1

\* ------------------------------------------------------- machine integers
\* A std::uint32_t (or int) is held in its 32-bit two's-complement form, so
\* uint32 arithmetic is integer arithmetic modulo 2^32 and a wrapped value
\* such as 0u - 1u is held as -1. The offsets reachable from the batches
\* below stay far inside (-2^31, 2^31), where that form is exact; unsigned
\* comparisons go through UGt.
U32(x) == x
I32(x) == x
UGt(a, b) == IF (a < 0) = (b < 0) THEN a > b ELSE a < 0
ULt(a, b) == UGt(b, a)

\* ------------------------------------------------------------ Location
Loc(r, c, b) == [row |-> r, column |-> c, byte |-> b]

\* operator== (Location): point and byte
LocEq(l1, l2) == l1.row = l2.row /\ l1.column = l2.column /\ l1.byte = l2.byte
\* operator> (Location): byte only
LocGt(l1, l2) == UGt(l1.byte, l2.byte)
\* operator<, operator<=, operator>= (Location): byte only
LocLt(l1, l2) == ULt(l1.byte, l2.byte)
LocLe(l1, l2) == ~UGt(l1.byte, l2.byte)
LocGe(l1, l2) == ~ULt(l1.byte, l2.byte)

\* ---------------------------------------------------------------- Point
\* operator<, operator<=, operator>, operator>= (Point): row, then column
PointLtMut(p1, p2) == ULt(p1.column, p2.column)
PointLt(p1, p2) == ULt(p1.row, p2.row) \/ (p1.row = p2.row /\ ULt(p1.column, p2.column))
PointLe(p1, p2) == ULt(p1.row, p2.row) \/ (p1.row = p2.row /\ ~UGt(p1.column, p2.column))
PointGt(p1, p2) == UGt(p1.row, p2.row) \/ (p1.row = p2.row /\ UGt(p1.column, p2.column))
PointGe(p1, p2) == UGt(p1.row, p2.row) \/ (p1.row = p2.row /\ ~ULt(p1.column, p2.column))

\* Range::overlaps
RECURSIVE Overlaps(_, _)
Overlaps(a, b) ==
    IF LocGt(a.start, b.start) THEN Overlaps(b, a)
    ELSE UGt(a.end.byte, b.start.byte)

\* ---------------------------------------------------------- the document
\* initial source of the document and the candidate edits of a batch
InitBuf == <<"a", "b", "c", "\n", "d">>

CountNL(buf, b) == Cardinality({i \in 1..b : buf[i] = "\n"})
LineStart(buf, b) ==
    LET nls == {i \in 1..b : buf[i] = "\n"}
    IN IF nls = {} THEN 0 ELSE CHOOSE m \in nls : \A j \in nls : j <= m
\* location of byte offset b in buf, as tree-sitter reports it for nodes
LocAt(buf, b) == Loc(CountNL(buf, b), b - LineStart(buf, b), b)
RangeAt(buf, s, e) == [start |-> LocAt(buf, s), end |-> LocAt(buf, e)]

EditRanges == {<<0, 1>>, <<1, 2>>, <<2, 3>>, <<0, 2>>, <<1, 1>>, <<3, 4>>, <<4, 5>>}
Replacements == {<<"x">>, <<"x", "y">>, <<>>, <<"\n">>, <<"\r">>}
\* edits whose range is the range of a node of the tree of buf
EditSetOf(buf) ==
    {[range |-> RangeAt(buf, p[1], p[2]), replacement |-> r] :
        p \in {q \in EditRanges : q[2] <= Len(buf)}, r \in Replacements}

\* the edits of the calls on a document already edited, assigned or swapped
LaterEditRanges == {<<0, 1>>, <<1, 2>>}
LaterReplacements == {<<"y">>, <<>>}
\* (a document left without text by a move is edited with ranges of the
\* text it had)
LaterEditSetOf(buf) ==
    LET ref == IF buf = <<>> THEN InitBuf ELSE buf IN
    {[range |-> RangeAt(ref, p[1], p[2]), replacement |-> r] :
        p \in {q \in LaterEditRanges : q[2] <= Len(ref)}, r \in LaterReplacements}

\* ------------------------------------------------------- edit validation
\* _forbid_zero_sized_edit
IsZeroSized(e) == LocEq(e.range.start, e.range.end)
\* _forbid_multiline_edit without the replacement test
IsMultilineMut(e) == e.range.start.row # e.range.end.row
\* _forbid_multiline_edit
IsMultiline(e) ==
    e.range.start.row # e.range.end.row
    \/ \E i \in DOMAIN e.replacement : e.replacement[i] = "\n"

\* _check_edits: "ok" or the kind of the first exception thrown
RECURSIVE CheckFrom(_, _)
CheckFrom(es, i) ==
    IF i > Len(es) THEN "ok"
    ELSE IF IsZeroSized(es[i]) THEN "ZeroSizedEdit"
    ELSE IF IsMultiline(es[i]) THEN "MultilineEdit"
    ELSE IF \E j \in 1..Len(es) : j # i /\ Overlaps(es[i].range, es[j].range)
         THEN "OverlappingEdit"
    ELSE CheckFrom(es, i + 1)
CheckEdits(es) == CheckFrom(es, 1)

\* ---------------------------------------------------------- edit ordering
\* std::sort with the comparator start.byte <= start.byte. For batches of at
\* most 16 edits libstdc++ runs a plain insertion sort: each element is
\* inserted after the last element whose key is strictly smaller.
SortKey(e) == e.range.start.byte
\* std::__unguarded_linear_insert / std::__insertion_sort, which std::sort
\* of a release libstdc++ build runs on at most 16 elements
LinearInsert(s, e) ==
    LET n == Cardinality({i \in 1..Len(s) : ULt(SortKey(s[i]), SortKey(e))})
    IN SubSeq(s, 1, n) \o <<e>> \o SubSeq(s, n + 1, Len(s))
RECURSIVE InsertionSort(_, _)
InsertionSort(s, rest) ==
    IF rest = <<>> THEN s ELSE InsertionSort(LinearInsert(s, Head(rest)), Tail(rest))

\* std::sort(edits, start.byte <= start.byte) in a build with (dbg) or
\* without _GLIBCXX_DEBUG. The comparator is not irreflexive, so the sort is
\* undefined on every non-empty range: the debug build checks
\* !comp(*first, *first) and aborts; the release build runs InsertionSort.
SortEdits(es, dbg) ==
    [abort |-> dbg /\ es # <<>>,
     order |-> IF dbg /\ es # <<>> THEN es ELSE InsertionSort(<<>>, es)]

\* ------------------------------------------------- coordinate adjustment
Min(a, b) == IF a < b THEN a ELSE b

\* _adjust_edit
AdjustEdit(e, a) ==
    LET shift == a.last_width_change # 0
                 /\ a.last_point.row = e.range.start.row
        sc == IF shift THEN U32(e.range.start.column + a.last_width_change)
              ELSE e.range.start.column
        ec == IF shift THEN U32(e.range.end.column + a.last_width_change)
              ELSE e.range.end.column
    IN [range |-> [start |-> Loc(e.range.start.row, sc,
                                 U32(e.range.start.byte + a.cumulative_byte_change)),
                   end |-> Loc(e.range.end.row, ec,
                               U32(e.range.end.byte + a.cumulative_byte_change))],
        replacement |-> e.replacement]

\* std::string::substr / replace; both throw out_of_range when pos > size()
SpliceInRange(src, pos) == pos >= 0 /\ pos <= Len(src)
\* the count n is clipped to the end of the string (a wrapped count is huge)
SpanEnd(src, pos, n) == IF n < 0 THEN Len(src) ELSE Min(pos + n, Len(src))
Substr(src, pos, n) == SubSeq(src, pos + 1, SpanEnd(src, pos, n))
Replace(src, pos, n, r) ==
    SubSeq(src, 1, pos) \o r \o SubSeq(src, SpanEnd(src, pos, n) + 1, Len(src))

\* _apply_edit on an adjusted edit: old_size, the after range, the
\* TSInputEdit handed to ts_tree_edit and the AppliedEdit
OldSize(e) == U32(e.range.end.byte - e.range.start.byte)
EndByteDiff(e) == Len(e.replacement) - OldSize(e)
AfterRange(e) ==
    [start |-> e.range.start,
     end |-> Loc(e.range.end.row,
                 U32(e.range.end.column + EndByteDiff(e)),
                 U32(e.range.end.byte + EndByteDiff(e)))]
InputEdit(e) ==
    [start_byte |-> e.range.start.byte,
     old_end_byte |-> e.range.end.byte,
     new_end_byte |-> AfterRange(e).end.byte,
     start_point |-> [row |-> e.range.start.row, column |-> e.range.start.column],
     old_end_point |-> [row |-> e.range.end.row, column |-> e.range.end.column],
     new_end_point |-> [row |-> AfterRange(e).end.row,
                        column |-> AfterRange(e).end.column]]
ApplyEditSource(e, src) == Replace(src, e.range.start.byte, OldSize(e), e.replacement)
AppliedRecord(e, src) ==
    [before |-> e.range, after |-> AfterRange(e),
     old_source |-> Substr(src, e.range.start.byte, OldSize(e)),
     replacement |-> e.replacement]

\* _apply_all_edits without restoring the caller's range
RestoreBeforeMut(ae, r) == ae
\* _apply_all_edits: applied_edit.before = range_before_adjustments
RestoreBefore(ae, r) == [ae EXCEPT !.before = r]

\* _update_adjustment
UpdateAdjustment(a, ae, lastPoint) ==
    LET beforeWidth == I32(ae.before.end.column - ae.before.start.column)
        afterWidth == I32(ae.after.end.column - ae.after.start.column)
        byteChange == I32(ae.after.end.byte - ae.before.end.byte)
    IN [last_point |-> lastPoint,
        last_width_change |-> I32(afterWidth - beforeWidth),
        cumulative_byte_change |-> I32(a.cumulative_byte_change + byteChange)]

\* Adjustment adjustment{} of _apply_all_edits
Adj0 == [last_point |-> [row |-> 0, column |-> 0],
         last_width_change |-> 0, cumulative_byte_change |-> 0]

\* _apply_all_edits as a function of the sorted edits and the source: the
\* final source, or ok = FALSE when substr throws out_of_range
RECURSIVE ApplyAllSource(_, _, _, _)
ApplyAllSource(es, i, src, a) ==
    IF i > Len(es) THEN [ok |-> TRUE, src |-> src]
    ELSE LET e == AdjustEdit(es[i], a) IN
         IF ~SpliceInRange(src, e.range.start.byte) THEN [ok |-> FALSE, src |-> <<>>]
         ELSE LET ae == RestoreBefore(AppliedRecord(e, src), es[i].range)
              IN ApplyAllSource(es, i + 1, ApplyEditSource(e, src),
                                UpdateAdjustment(a, ae, [row |-> e.range.end.row,
                                                         column |-> e.range.end.column]))

\* edit_tree's new source for a caller-supplied batch on src (sort, check,
\* apply); ok = FALSE when an exception is thrown
EditTreeSource(b, src, dbg) ==
    LET o == SortEdits(b, dbg)  es == o.order IN
    IF o.abort THEN [abort |-> TRUE, ok |-> FALSE, src |-> <<>>]
    ELSE IF CheckEdits(es) # "ok" THEN [abort |-> FALSE, ok |-> FALSE, src |-> <<>>]
    ELSE LET r == ApplyAllSource(es, 1, src, Adj0)
         IN [abort |-> FALSE, ok |-> r.ok, src |-> r.src]

\* ts_tree_get_changed_ranges belongs to the tree-sitter library: its result
\* is drawn from EngineOutcomes, which holds no ranges, the span of the new
\* text that differs from the old one, and the whole new text
RECURSIVE CommonPrefix(_, _, _)
CommonPrefix(s, t, i) ==
    IF i < Len(s) /\ i < Len(t) /\ s[i + 1] = t[i + 1]
    THEN CommonPrefix(s, t, i + 1) ELSE i
RECURSIVE CommonSuffix(_, _, _, _)
CommonSuffix(s, t, p, i) ==
    IF i < Len(s) - p /\ i < Len(t) - p /\ s[Len(s) - i] = t[Len(t) - i]
    THEN CommonSuffix(s, t, p, i + 1) ELSE i
TSRangeAt(buf, sb, eb) ==
    [start_point |-> [row |-> LocAt(buf, sb).row, column |-> LocAt(buf, sb).column],
     end_point |-> [row |-> LocAt(buf, eb).row, column |-> LocAt(buf, eb).column],
     start_byte |-> sb, end_byte |-> eb]
\* the span [sb, eb) of buf as TSRanges, split after its first line break
TSRangesPerRow(buf, sb, eb) ==
    LET nl == {x \in sb..(eb - 2) : buf[x + 1] = "\n"} IN
    IF nl = {} THEN <<TSRangeAt(buf, sb, eb)>>
    ELSE LET x == CHOOSE x \in nl : \A y \in nl : x <= y
         IN <<TSRangeAt(buf, sb, x + 1), TSRangeAt(buf, x + 1, eb)>>
EngineChangedRanges(old, new) ==
    IF old = new THEN <<>>
    ELSE LET p == CommonPrefix(old, new, 0)
             q == CommonSuffix(old, new, p, 0)
         IN TSRangesPerRow(new, p, Len(new) - q)
EngineOutcomes(old, new) ==
    {<<>>, EngineChangedRanges(old, new), TSRangesPerRow(new, 0, Len(new))}

\* _range with the end location built from the start fields
ToRangeMut(r) ==
    [start |-> Loc(r.start_point.row, r.start_point.column, r.start_byte),
     end |-> Loc(r.start_point.row, r.start_point.column, r.start_byte)]
\* _range (via _location and _point)
ToRange(r) ==
    [start |-> Loc(r.start_point.row, r.start_point.column, r.start_byte),
     end |-> Loc(r.end_point.row, r.end_point.column, r.end_byte)]
\* _get_changed_ranges
GetChangedRanges(d) ==
    IF Len(d) = 0 THEN <<>> ELSE [i \in 1..Len(d) |-> ToRange(d[i])]

\* _apply_all_edits returning the final source and the applied_edits
RECURSIVE ApplyAllRecords(_, _, _, _, _)
ApplyAllRecords(es, i, src, a, acc) ==
    IF i > Len(es) THEN [ok |-> TRUE, src |-> src, applied |-> acc]
    ELSE LET e == AdjustEdit(es[i], a) IN
         IF ~SpliceInRange(src, e.range.start.byte)
         THEN [ok |-> FALSE, src |-> <<>>, applied |-> <<>>]
         ELSE LET ae == RestoreBefore(AppliedRecord(e, src), es[i].range)
              IN ApplyAllRecords(es, i + 1, ApplyEditSource(e, src),
                                 UpdateAdjustment(a, ae, [row |-> e.range.end.row,
                                                          column |-> e.range.end.column]),
                                 Append(acc, ae))

\* edit_tree's EditResult and new source for a batch on src, the engine
\* reporting the changed ranges eng
EditTreeResult(b, src, dbg, eng) ==
    LET o == SortEdits(b, dbg)  es == o.order IN
    IF o.abort THEN [abort |-> TRUE, ok |-> FALSE, src |-> <<>>, applied |-> <<>>,
                     changed |-> <<>>]
    ELSE IF CheckEdits(es) # "ok" THEN [abort |-> FALSE, ok |-> FALSE, src |-> <<>>,
                                        applied |-> <<>>, changed |-> <<>>]
    ELSE LET r == ApplyAllRecords(es, 1, src, Adj0, <<>>)
         IN [abort |-> FALSE, ok |-> r.ok, src |-> r.src, applied |-> r.applied,
             changed |-> IF r.ok THEN GetChangedRanges(eng) ELSE <<>>]

\* --------------------------------------------------------------- state
VARIABLES
    buffer,     \* Tree::source_
    docTree,    \* Tree::tree (tree id, 0 = null)
    live,       \* tree ids not yet deleted
    treeText,   \* tree id -> text it was parsed from
    nextTree,   \* id the next tree the engine returns gets
    notified,   \* ts_tree_edit calls made by the current call
    pc,         \* position in Tree::edit
    calls,      \* Tree::edit calls started on the document
    submitted,  \* edits passed to those calls, in total
    assigns,    \* assignments and swaps performed on the document
    src0,       \* the document's source when the current call began
    tree0,      \* the document's tree when the current call began
    batch,      \* caller-supplied edits
    edits,      \* edit_tree's local edits vector
    k,          \* index of the edit being applied
    adj,        \* Adjustment
    newSrc,     \* edit_tree's new_source
    versions,   \* new_source before each splice, in order
    applied,    \* applied_edits
    oldTree,    \* old_tree argument of edit_tree (0 once the call has ended)
    argTree,    \* old_tree argument of the current or last edit_tree call
    direct,     \* the call is ts::edit_tree called directly, not Tree::edit
    reparseBase, \* old_tree argument of the parse_string call of edit_tree
    newTree,    \* new_tree of edit_tree
    engineRanges, \* TSRange array returned by ts_tree_get_changed_ranges
    diffArgs,   \* trees passed to ts_tree_get_changed_ranges
    changed,    \* changed_ranges
    err,        \* exception thrown out of Tree::edit
    trace,      \* operations performed by the current call, in order
    debugBuild, \* the library is built with _GLIBCXX_DEBUG
    ovA, ovB, ovAB, ovBA  \* arguments and results of the comparisons

docVars == <<buffer, docTree, live, treeText, nextTree, notified, pc, calls, submitted, assigns,
             src0, tree0, batch, edits, k, adj, newSrc, versions, applied, oldTree,
             argTree, direct, reparseBase, newTree, engineRanges, diffArgs, changed, err, trace,
             debugBuild>>
ovVars == <<ovA, ovB, ovAB, ovBA>>
vars == <<docVars, ovVars, debugBuild>>

NoTree == 0
FirstTree == 1
MaxTrees == 1 + 2 * MaxCalls + MaxAssigns
TreeIds == 0..MaxTrees
ValidationErrors == {"ZeroSizedEdit", "MultilineEdit", "OverlappingEdit"}
\* the document is between calls (a call returned or threw)
Between == pc \in {"idle", "done", "failed"}

\* a document parsed from buf (Parser::parse_string) before any call
DocInit(buf) ==
    /\ buffer = buf
    /\ docTree = FirstTree
    /\ live = {FirstTree}
    /\ treeText = [t \in TreeIds |-> IF t = FirstTree THEN buf ELSE <<>>]
    /\ nextTree = FirstTree + 1
    /\ notified = <<>>
    /\ pc = "idle"
    /\ calls = 0
    /\ submitted = 0
    /\ assigns = 0
    /\ src0 = buf
    /\ tree0 = FirstTree
    /\ batch = <<>>
    /\ edits = <<>>
    /\ k = 0
    /\ adj = Adj0
    /\ newSrc = <<>>
    /\ versions = <<>>
    /\ applied = <<>>
    /\ oldTree = NoTree
    /\ argTree = NoTree
    /\ direct = FALSE
    /\ reparseBase = NoTree
    /\ newTree = NoTree
    /\ engineRanges = <<>>
    /\ diffArgs = <<>>
    /\ changed = <<>>
    /\ err = "none"
    /\ trace = <<>>
    /\ debugBuild \in BOOLEAN

OvInit0 == ovA = "none" /\ ovB = "none" /\ ovAB = <<>> /\ ovBA = <<>>

Init == DocInit(InitBuf) /\ OvInit0

\* start of edit_tree: the edits vector, new_source copied from the
\* document's source; the locals of the previous call are gone
EditFrom(S) ==
    /\ Between
    /\ calls < MaxCalls
    /\ \E n \in 0..(MaxBatch - submitted) : \E b \in [1..n -> S] :
        /\ batch' = b
        /\ edits' = b
        /\ submitted' = submitted + n
    /\ calls' = calls + 1
    /\ src0' = buffer
    /\ tree0' = docTree
    /\ reparseBase' = NoTree
    /\ newSrc' = buffer
    /\ versions' = <<>>
    /\ notified' = <<>>
    /\ k' = 0
    /\ adj' = Adj0
    /\ applied' = <<>>
    /\ newTree' = NoTree
    /\ engineRanges' = <<>>
    /\ diffArgs' = <<>>
    /\ changed' = <<>>
    /\ err' = "none"
    /\ trace' = <<>>
    /\ pc' = "sort"
    /\ UNCHANGED <<buffer, assigns, ovVars, debugBuild>>

\* Tree::edit: old_tree takes the handle out of this->tree (possibly null)
\* and owns it; edit_tree(edits, *this, old_tree.get())
TreeEditFrom(S) ==
    /\ EditFrom(S)
    /\ oldTree' = docTree
    /\ argTree' = docTree
    /\ direct' = FALSE
    /\ docTree' = NoTree
    /\ UNCHANGED <<live, treeText, nextTree>>

\* ts::edit_tree(edits, tree, old_tree) called directly: the document keeps
\* its tree; old_tree is the caller's, never deleted by the call: a copy of
\* the document's tree (ts_tree_copy), the document's own tree, or null
EditTreeFrom(S) ==
    /\ EditFrom(S)
    /\ direct' = TRUE
    /\ UNCHANGED docTree
    /\ \/ /\ docTree # NoTree
          /\ oldTree' = nextTree
          /\ argTree' = nextTree
          /\ nextTree' = nextTree + 1
          /\ live' = live \cup {nextTree}
          /\ treeText' = [treeText EXCEPT ![nextTree] = treeText[docTree]]
       \/ /\ oldTree' = docTree
          /\ argTree' = docTree
          /\ UNCHANGED <<live, treeText, nextTree>>
       \/ /\ oldTree' = NoTree
          /\ argTree' = NoTree
          /\ UNCHANGED <<live, treeText, nextTree>>

\* edits a document may be given: node ranges on the fresh document
EditChoices(S) == IF calls = 0 /\ assigns = 0 THEN S ELSE LaterEditSetOf(buffer)

Edit == TreeEditFrom(EditChoices(EditSetOf(buffer)))
\* the edits of a direct call: those of later calls and an empty range
DirectEditSetOf(buf) ==
    LET ref == IF buf = <<>> THEN InitBuf ELSE buf IN
    LaterEditSetOf(buf) \cup {[range |-> RangeAt(ref, 1, 1), replacement |-> <<>>]}

\* a direct call as the document's first call
EditTree == calls = 0 /\ EditTreeFrom(DirectEditSetOf(buffer))

\* edit_tree: std::sort of the edits, or the debug build's abort
Sort ==
    /\ pc = "sort"
    /\ LET o == SortEdits(edits, debugBuild) IN
        IF o.abort
        THEN /\ pc' = "aborted"
             /\ trace' = Append(trace, "abort")
             /\ UNCHANGED edits
        ELSE /\ edits' = o.order
             /\ trace' = Append(trace, "sort")
             /\ pc' = "check"
    /\ UNCHANGED <<buffer, docTree, live, treeText, nextTree, notified, calls, submitted, assigns,
                   src0, tree0, batch, k, adj, newSrc, versions, applied, oldTree,
                   newTree, changed, err, reparseBase, engineRanges, diffArgs, argTree, direct, ovVars, debugBuild>>

\* edit_tree: _check_edits; an exception leaves Tree::edit, whose old_tree
\* deletes the old tree
Check ==
    /\ pc = "check"
    /\ LET res == CheckEdits(edits) IN
        IF res = "ok"
        THEN /\ pc' = "apply"
             /\ k' = 1
             /\ trace' = Append(trace, "validated")
             /\ UNCHANGED <<live, oldTree, err>>
        ELSE /\ pc' = "failed"
             /\ err' = res
             /\ live' = IF direct THEN live ELSE live \ {oldTree}
             /\ oldTree' = NoTree
             /\ trace' = Append(trace, "throw")
             /\ UNCHANGED k
    /\ UNCHANGED <<buffer, docTree, treeText, nextTree, notified, calls, submitted, assigns, src0,
                   tree0, batch, edits, adj, newSrc, versions, applied, newTree,
                   changed, reparseBase, engineRanges, diffArgs, argTree, direct, ovVars, debugBuild>>

\* _apply_all_edits, one loop iteration: _adjust_edit, _apply_edit (substr,
\* replace, ts_tree_edit), restore `before`, _update_adjustment.
\* ts_tree_edit on a null tree dereferences it: the process crashes.
ApplyOne ==
    /\ pc = "apply"
    /\ k <= Len(edits)
    /\ LET e == AdjustEdit(edits[k], adj) IN
        IF ~SpliceInRange(newSrc, e.range.start.byte)
        \* std::out_of_range from substr leaves Tree::edit
        THEN /\ pc' = "failed"
             /\ err' = "out_of_range"
             /\ live' = IF direct THEN live ELSE live \ {oldTree}
             /\ oldTree' = NoTree
             /\ trace' = Append(trace, "throw")
             /\ UNCHANGED <<newSrc, versions, notified, applied, adj, edits, k>>
        ELSE IF oldTree = NoTree
        THEN /\ pc' = "crashed"
             /\ newSrc' = ApplyEditSource(e, newSrc)
             /\ trace' = trace \o <<"splice", "crash">>
             /\ UNCHANGED <<live, oldTree, err, versions, notified, applied, adj, edits, k>>
        ELSE LET ae == RestoreBefore(AppliedRecord(e, newSrc), edits[k].range)
             IN /\ newSrc' = ApplyEditSource(e, newSrc)
                /\ versions' = Append(versions, newSrc)
                /\ notified' = Append(notified, [tree |-> oldTree] @@ InputEdit(e))
                /\ applied' = Append(applied, ae)
                /\ adj' = UpdateAdjustment(adj, ae,
                                           [row |-> e.range.end.row,
                                            column |-> e.range.end.column])
                /\ edits' = [edits EXCEPT ![k] = e]
                /\ k' = k + 1
                /\ trace' = trace \o <<"splice", "notify">>
                /\ UNCHANGED <<pc, live, oldTree, err>>
    /\ UNCHANGED <<buffer, docTree, treeText, nextTree, calls, submitted, assigns, src0, tree0,
                   batch, newTree, changed, reparseBase, engineRanges, diffArgs, argTree, direct, ovVars, debugBuild>>

\* end of the loop of _apply_all_edits
ApplyDone ==
    /\ pc = "apply"
    /\ k > Len(edits)
    /\ pc' = "reparse"
    /\ UNCHANGED <<buffer, docTree, live, treeText, nextTree, notified, calls, submitted, assigns,
                   src0, tree0, batch, edits, k, adj, newSrc, versions, applied, oldTree,
                   newTree, changed, err, trace, reparseBase, engineRanges, diffArgs, argTree, direct, ovVars, debugBuild>>

\* edit_tree calling Parser::parse_string with a null old tree
ReparseOkMut ==
    /\ pc = "reparse"
    /\ reparseBase' = NoTree
    /\ newTree' = nextTree
    /\ nextTree' = nextTree + 1
    /\ live' = live \cup {nextTree}
    /\ treeText' = [treeText EXCEPT ![nextTree] = newSrc]
    /\ trace' = Append(trace, "reparse")
    /\ pc' = "diff"
    /\ UNCHANGED <<buffer, docTree, notified, calls, submitted, assigns, src0, tree0, batch, edits,
                   k, adj, newSrc, versions, applied, oldTree, changed, err, engineRanges, diffArgs, argTree, direct, ovVars, debugBuild>>

\* Parser::parse_string(old_tree, new_source): the engine returns a new tree
\* (a null old_tree asks for a parse from scratch)
ReparseOk ==
    /\ pc = "reparse"
    /\ reparseBase' = oldTree
    /\ newTree' = nextTree
    /\ nextTree' = nextTree + 1
    /\ live' = live \cup {nextTree}
    /\ treeText' = [treeText EXCEPT ![nextTree] = newSrc]
    /\ trace' = Append(trace, "reparse")
    /\ pc' = "diff"
    /\ UNCHANGED <<buffer, docTree, notified, calls, submitted, assigns, src0, tree0, batch, edits,
                   k, adj, newSrc, versions, applied, oldTree, changed, err, engineRanges, diffArgs, argTree, direct, ovVars, debugBuild>>

\* Parser::parse_string: the engine returns nullptr, ParseFailureException
\* leaves Tree::edit
ReparseFail ==
    /\ pc = "reparse"
    /\ reparseBase' = oldTree
    /\ pc' = "failed"
    /\ err' = "ParseFailure"
    /\ live' = IF direct THEN live ELSE live \ {oldTree}
    /\ oldTree' = NoTree
    /\ trace' = trace \o <<"reparse", "throw">>
    /\ UNCHANGED <<buffer, docTree, treeText, nextTree, notified, calls, submitted, assigns, src0,
                   tree0, batch, edits, k, adj, newSrc, versions, applied, newTree,
                   changed, engineRanges, diffArgs, argTree, direct, ovVars, debugBuild>>

\* edit_tree finishing with the tree swapped but the source kept
FinishMut ==
    /\ pc = "diff"
    /\ oldTree # NoTree
    /\ \E d \in EngineOutcomes(treeText[oldTree], treeText[newTree]) :
        engineRanges' = d /\ changed' = GetChangedRanges(d)
    /\ diffArgs' = <<oldTree, newTree>>
    /\ docTree' = newTree
    /\ newTree' = NoTree
    /\ live' = live \ {docTree, IF direct THEN NoTree ELSE oldTree}
    /\ oldTree' = NoTree
    /\ trace' = trace \o <<"diff", "swap">>
    /\ pc' = "done"
    /\ UNCHANGED <<buffer, treeText, nextTree, notified, calls, submitted, assigns, src0, tree0,
                   batch, edits, k, adj, newSrc, versions, applied, err, reparseBase, argTree, direct, ovVars, debugBuild>>

\* edit_tree: _get_changed_ranges, swap(tree, new_tree), return; then
\* Tree::edit's old_tree deletes the old tree. ts_tree_get_changed_ranges
\* on a null old tree dereferences it: the process crashes.
Finish ==
    /\ pc = "diff"
    /\ IF oldTree = NoTree
       THEN /\ pc' = "crashed"
            /\ trace' = trace \o <<"diff", "crash">>
            /\ UNCHANGED <<changed, engineRanges, diffArgs, docTree, buffer, newTree, live,
                            oldTree>>
       ELSE /\ \E d \in EngineOutcomes(treeText[oldTree], treeText[newTree]) :
                  engineRanges' = d /\ changed' = GetChangedRanges(d)
            /\ diffArgs' = <<oldTree, newTree>>
            /\ docTree' = newTree
            /\ buffer' = newSrc
            /\ newTree' = NoTree
            /\ live' = live \ {docTree, IF direct THEN NoTree ELSE oldTree}
            /\ oldTree' = NoTree
            /\ trace' = trace \o <<"diff", "swap">>
            /\ pc' = "done"
    /\ UNCHANGED <<treeText, nextTree, notified, calls, submitted, assigns, src0, tree0, batch,
                   edits, k, adj, newSrc, versions, applied, err, reparseBase, argTree, direct, ovVars, debugBuild>>

\* texts of the other Tree objects a document is assigned from or swapped with
AssignTexts == {<<"c", "\n", "d">>}

\* between calls no Tree::edit frame exists: its locals are gone and the
\* document's current source and tree are those a next call starts from
NoCallPending ==
    /\ pc' = "idle"
    /\ src0' = buffer'
    /\ tree0' = docTree'
    /\ notified' = <<>>
    /\ batch' = <<>>
    /\ edits' = <<>>
    /\ k' = 0
    /\ adj' = Adj0
    /\ newSrc' = <<>>
    /\ versions' = <<>>
    /\ applied' = <<>>
    /\ reparseBase' = NoTree
    /\ argTree' = NoTree
    /\ direct' = FALSE
    /\ engineRanges' = <<>>
    /\ diffArgs' = <<>>
    /\ changed' = <<>>
    /\ err' = "none"
    /\ trace' = <<>>

\* Tree::operator=(const Tree&): copy-and-swap; the copy holds ts_tree_copy
\* of the other tree, and its destructor deletes the document's old tree
CopyAssign ==
    /\ Between
    /\ assigns < MaxAssigns
    /\ \E t \in AssignTexts :
        /\ buffer' = t
        /\ treeText' = [treeText EXCEPT ![nextTree] = t]
    /\ docTree' = nextTree
    /\ nextTree' = nextTree + 1
    /\ live' = (live \ {docTree}) \cup {nextTree}
    /\ assigns' = assigns + 1
    /\ NoCallPending
    /\ UNCHANGED <<calls, submitted, oldTree, newTree, ovVars, debugBuild>>

\* Tree::operator=(Tree&&) = default: the document's unique_ptr deletes its
\* old tree and takes the other's; the source is moved
MoveAssign ==
    /\ Between
    /\ assigns < MaxAssigns
    /\ \E t \in AssignTexts :
        /\ buffer' = t
        /\ treeText' = [treeText EXCEPT ![nextTree] = t]
    /\ docTree' = nextTree
    /\ nextTree' = nextTree + 1
    /\ live' = (live \ {docTree}) \cup {nextTree}
    /\ assigns' = assigns + 1
    /\ NoCallPending
    /\ UNCHANGED <<calls, submitted, oldTree, newTree, ovVars, debugBuild>>

\* swap(Tree&, Tree&): tree, source and parser change places; the
\* document's old tree lives on in the other object
SwapTree ==
    /\ Between
    /\ assigns < MaxAssigns
    /\ \E t \in AssignTexts :
        /\ buffer' = t
        /\ treeText' = [treeText EXCEPT ![nextTree] = t]
    /\ docTree' = nextTree
    /\ nextTree' = nextTree + 1
    /\ live' = live \cup {nextTree}
    /\ assigns' = assigns + 1
    /\ NoCallPending
    /\ UNCHANGED <<calls, submitted, oldTree, newTree, ovVars, debugBuild>>

\* Tree::Tree(Tree&&) = default or Tree::operator=(Tree&&) = default with
\* the document as the source (Tree sink = std::move(doc), other =
\* std::move(doc)): the other object takes the tree, which lives on there;
\* the document keeps a null tree and the moved-from std::string, which
\* libstdc++ leaves empty
MoveFrom ==
    /\ Between
    /\ assigns < MaxAssigns
    /\ buffer' = <<>>
    /\ docTree' = NoTree
    /\ assigns' = assigns + 1
    /\ NoCallPending
    /\ UNCHANGED <<live, treeText, nextTree, calls, submitted, oldTree, newTree, ovVars,
                   debugBuild>>

Next == Edit \/ EditTree \/ Sort \/ Check \/ ApplyOne \/ ApplyDone \/ ReparseOk \/ ReparseFail
        \/ Finish \/ CopyAssign \/ MoveAssign \/ SwapTree \/ MoveFrom

Spec == Init /\ [][Next]_vars

\* ------------------------------------- caller ranges that are not node ranges
\* an Edit is a plain struct: its range may have equal bytes but different
\* columns, or an end before its start
RawRanges == {[start |-> Loc(0, 1, 1), end |-> Loc(0, 2, 1)], RangeAt(InitBuf, 2, 1)}
RawEditSet(buf) == EditSetOf(buf) \cup
    {[range |-> r, replacement |-> t] : r \in RawRanges, t \in {<<"x">>, <<"y">>, <<>>}}
RawEdit == TreeEditFrom(EditChoices(RawEditSet(buffer)))
RawNext == RawEdit \/ EditTree \/ Sort \/ Check \/ ApplyOne \/ ApplyDone \/ ReparseOk
           \/ ReparseFail \/ Finish \/ CopyAssign \/ MoveAssign \/ SwapTree \/ MoveFrom
RawSpec == Init /\ [][RawNext]_vars

\* ------------------------------------------ Range::overlaps on its own
\* ranges with start <= end on one row of a text without line breaks
OvText == [i \in 1..MaxByte |-> "a"]
OvRanges == {RangeAt(OvText, s, e) : s \in 0..MaxByte, e \in 0..MaxByte}
OvInit ==
    /\ DocInit(InitBuf)
    /\ ovA \in {r \in OvRanges : r.start.byte <= r.end.byte}
    /\ ovB \in {r \in OvRanges : r.start.byte <= r.end.byte}
    /\ ovAB = <<>> /\ ovBA = <<>>

\* a.overlaps(b) and b.overlaps(a)
OverlapsBoth ==
    /\ ovAB = <<>>
    /\ ovAB' = <<Overlaps(ovA, ovB)>>
    /\ ovBA' = <<Overlaps(ovB, ovA)>>
    /\ UNCHANGED <<docVars, ovA, ovB>>

OvNext == OverlapsBoth
OvSpec == OvInit /\ [][OvNext]_vars

\* ------------------------------------ Location and Point comparisons
\* two locations of one buffer generation (texts of MaxByte characters)
CmpTexts == [1..MaxByte -> {"a", "\n"}]
CmpInit ==
    /\ \E t \in CmpTexts : DocInit(t)
    /\ ovA \in {LocAt(buffer, b) : b \in 0..Len(buffer)}
    /\ ovB \in {LocAt(buffer, b) : b \in 0..Len(buffer)}
    /\ ovAB = <<>> /\ ovBA = <<>>

\* a < b, a <= b, a > b, a >= b on the Locations and on their Points
CompareBoth ==
    /\ ovAB = <<>>
    /\ ovAB' = <<[lt |-> LocLt(ovA, ovB), le |-> LocLe(ovA, ovB),
                  gt |-> LocGt(ovA, ovB), ge |-> LocGe(ovA, ovB)]>>
    /\ ovBA' = <<[lt |-> PointLt(ovA, ovB), le |-> PointLe(ovA, ovB),
                  gt |-> PointGt(ovA, ovB), ge |-> PointGe(ovA, ovB)]>>
    /\ UNCHANGED <<docVars, ovA, ovB>>

CmpNext == CompareBoth
CmpSpec == CmpInit /\ [][CmpNext]_vars

\* ================================================================ claims

\* C1: when Tree::edit rejects a batch with ZeroSizedEdit, MultilineEdit or
\* OverlappingEdit, the buffer and the tree are as before the call: the
\* document still holds its tree, which is alive and received no ts_tree_edit.
C1_Atomicity ==
    (pc = "failed" /\ err \in ValidationErrors) =>
        /\ buffer = src0
        /\ docTree = tree0
        /\ tree0 \in live
        /\ notified = <<>>

\* claim-side validity of a batch: every edit non-empty and single-line,
\* no two distinct entries overlapping
ClaimZero(e) == e.range.start = e.range.end
ClaimMulti(e) ==
    e.range.start.row # e.range.end.row
    \/ \E i \in DOMAIN e.replacement : e.replacement[i] = "\n"
ClaimOverlap(r1, r2) ==
    IF r1.start.byte <= r2.start.byte THEN r1.end.byte > r2.start.byte
    ELSE r2.end.byte > r1.start.byte
ClaimValid(b) ==
    /\ \A i \in DOMAIN b : ~ClaimZero(b[i]) /\ ~ClaimMulti(b[i])
    /\ \A i, j \in DOMAIN b : i # j => ~ClaimOverlap(b[i].range, b[j].range)
Mutating(ev) == ev \in {"splice", "notify"}

\* C2: no splice of the buffer and no ts_tree_edit happens before the whole
\* batch has passed the zero-sized, multiline and overlap checks.
C2_ValidationFirst ==
    \A i \in DOMAIN trace :
        Mutating(trace[i]) =>
            /\ \E j \in 1..(i - 1) : trace[j] = "validated"
            /\ ClaimValid(batch)
C2_Witness == pc = "reparse" /\ Len(batch) = 2 /\ "notify" \in {trace[i] : i \in DOMAIN trace}

\* C3: after a successful Tree::edit the buffer is the patched text, the
\* document holds the single tree reparsed from exactly that text, and the
\* previous tree is deleted and held by nobody.
C3_ReplaceTogether ==
    pc = "done" =>
        /\ Len(applied) = Len(batch)
        /\ docTree # tree0
        /\ docTree \in live
        /\ treeText[docTree] = buffer
        /\ tree0 \notin live
        /\ oldTree = NoTree /\ newTree = NoTree
C3_Witness == pc = "done" /\ Len(batch) = 2 /\ buffer # src0 /\ calls = 2

\* claim-side helpers
HasZero(b) == \E i \in DOMAIN b : ClaimZero(b[i])
OverlapsOther(b, i) == \E j \in DOMAIN b : j # i /\ ClaimOverlap(b[i].range, b[j].range)
Ended == pc \in {"failed", "done", "aborted", "crashed"}
NothingCommitted ==
    /\ buffer = src0
    /\ notified = <<>>
    /\ \A i \in DOMAIN trace : ~Mutating(trace[i])

\* C4: a batch containing an edit with range.start = range.end
\* is rejected with ZeroSizedEdit and nothing is committed.
C4_ZeroSizedRejected ==
    (Ended /\ HasZero(batch)) =>
        pc = "failed" /\ err = "ZeroSizedEdit" /\ NothingCommitted

\* claim-side line break test including carriage return
ClaimMultiCR(e) ==
    \/ ClaimMulti(e)
    \/ \E i \in DOMAIN e.replacement : e.replacement[i] = "\r"

\* C5: a batch with an edit spanning rows, or whose replacement
\* contains '\n' or '\r', is rejected with MultilineEdit, nothing committed.
C5_MultilineRejected ==
    (Ended /\ \E i \in DOMAIN batch : ClaimMultiCR(batch[i])) =>
        pc = "failed" /\ err = "MultilineEdit" /\ NothingCommitted

\* C6: a batch with two distinct entries whose ranges overlap is rejected
\* with OverlappingEdit, buffer and tree unchanged.
C6_OverlapRejected ==
    (Ended /\ \E i \in DOMAIN batch : OverlapsOther(batch, i)) =>
        /\ pc = "failed" /\ err = "OverlappingEdit"
        /\ buffer = src0 /\ notified = <<>>
        /\ docTree = tree0 /\ tree0 \in live

\* C7: Range::overlaps is symmetric on ranges with start <= end.
C7_OverlapsSymmetric == ovAB # <<>> => ovAB = ovBA

\* C8: ranges a, b with a.end == b.start overlap in neither direction.
C8_TouchingNoOverlap ==
    (ovAB # <<>> /\ ovA.end = ovB.start) => ovAB = <<FALSE>> /\ ovBA = <<FALSE>>

\* C9: a successful batch reports one record per edit, in strictly ascending
\* order of the original start byte, whatever the submission order.
C9_AppliedSorted ==
    pc = "done" =>
        /\ Len(applied) = Len(batch)
        /\ \A i \in DOMAIN batch : \E j \in DOMAIN applied :
              applied[j].before = batch[i].range
              /\ applied[j].replacement = batch[i].replacement
        /\ \A i \in 1..(Len(applied) - 1) :
              ULt(applied[i].before.start.byte, applied[i + 1].before.start.byte)

\* C10: the sort only ever receives batches already validated, hence with no
\* two edits of equal start byte.
C10_SortAfterValidation ==
    pc = "check" =>
        /\ "validated" \in {trace[i] : i \in DOMAIN trace}
        /\ \A i, j \in DOMAIN edits :
              i # j => edits[i].range.start.byte # edits[j].range.start.byte

\* C11: in a successful batch every record's before is exactly the range the
\* caller supplied for that edit (original coordinates, no adjustment).
C11_BeforeIsOriginal ==
    pc = "done" =>
        \A j \in DOMAIN applied : \E i \in DOMAIN batch :
            /\ applied[j].before = batch[i].range
            /\ applied[j].replacement = batch[i].replacement
C11_Witness ==
    /\ pc = "done"
    /\ \E j \in DOMAIN applied :
          applied[j].before.start.byte # applied[j].after.start.byte

\* claim-side: the text of buf over byte range [s, e), when inside buf
InText(buf, s, e) == 0 <= s /\ s <= e /\ e <= Len(buf)
LocatesIn(buf, l) == 0 <= l.byte /\ l.byte <= Len(buf) /\ l = LocAt(buf, l.byte)

\* C12: in a successful batch every record's after range is where its
\* replacement sits in the final buffer, bytes and row/column alike.
C12_AfterInFinal ==
    pc = "done" =>
        \A j \in DOMAIN applied :
            LET a == applied[j].after IN
            /\ InText(buffer, a.start.byte, a.end.byte)
            /\ SubSeq(buffer, a.start.byte + 1, a.end.byte) = applied[j].replacement
            /\ LocatesIn(buffer, a.start)
            /\ LocatesIn(buffer, a.end)

\* claim-side reference: replace each edit's original byte range of buf by
\* its replacement, from the highest start byte down to the lowest
RECURSIVE RefApply(_, _, _)
RefApply(buf, b, S) ==
    IF S = {} THEN buf
    ELSE LET i == CHOOSE i \in S : \A j \in S :
                      b[j].range.start.byte <= b[i].range.start.byte
             r == b[i].range
         IN RefApply(SubSeq(buf, 1, r.start.byte) \o b[i].replacement
                     \o SubSeq(buf, r.end.byte + 1, Len(buf)), b, S \ {i})

\* C13: the final buffer of a successful batch equals the reference result
\* of replacing each original byte range by its replacement.
C13_FinalIsReference ==
    pc = "done" => buffer = RefApply(src0, batch, DOMAIN batch)

Perms(n) == {f \in [1..n -> 1..n] : \A i, j \in 1..n : i # j => f[i] # f[j]}

\* C14: every permutation of a successfully applied batch, applied to the
\* same document, yields the same final buffer.
C14_OrderIndependent ==
    pc = "done" =>
        \A f \in Perms(Len(batch)) :
            EditTreeSource([i \in DOMAIN batch |-> batch[f[i]]], src0, debugBuild)
                = [abort |-> FALSE, ok |-> TRUE, src |-> buffer]

\* claim-side: length change of record i (replacement minus original span)
Delta(r) == Len(r.replacement) - (r.before.end.byte - r.before.start.byte)
RECURSIVE SumOver(_, _)
SumOver(f, S) ==
    IF S = {} THEN 0
    ELSE LET i == CHOOSE i \in S : TRUE IN f[i] + SumOver(f, S \ {i})

\* C15: in a successful batch, each record's after.start.column is its
\* before.start.column plus the length changes of all earlier edits that
\* start on the same row.
C15_SameRowColumns ==
    pc = "done" =>
        \A kk \in DOMAIN applied :
            applied[kk].after.start.column
                = applied[kk].before.start.column
                  + SumOver([i \in DOMAIN applied |-> Delta(applied[i])],
                            {i \in 1..(kk - 1) :
                               applied[i].before.start.row
                                 = applied[kk].before.start.row})

\* C16: in a successful batch, each record's after.start.byte is its
\* before.start.byte plus the length changes of all earlier edits, and its
\* column is unchanged when no earlier edit starts on its row.
C16_CrossRowBytes ==
    pc = "done" =>
        \A kk \in DOMAIN applied :
            /\ applied[kk].after.start.byte
                 = applied[kk].before.start.byte
                   + SumOver([i \in DOMAIN applied |-> Delta(applied[i])], 1..(kk - 1))
            /\ (\A i \in 1..(kk - 1) :
                   applied[i].before.start.row # applied[kk].before.start.row)
               => applied[kk].after.start.column = applied[kk].before.start.column

\* C17: in a successful batch each record's old text is the original buffer
\* over its before byte range and its replacement is the caller's.
C17_OldTextFromOriginal ==
    pc = "done" =>
        \A j \in DOMAIN applied :
            LET b == applied[j].before IN
            /\ InText(src0, b.start.byte, b.end.byte)
            /\ applied[j].old_source = SubSeq(src0, b.start.byte + 1, b.end.byte)
            /\ \E i \in DOMAIN batch :
                  batch[i].range = b /\ batch[i].replacement = applied[j].replacement

RECURSIVE SpliceNotify(_)
SpliceNotify(n) == IF n = 0 THEN <<>> ELSE SpliceNotify(n - 1) \o <<"splice", "notify">>

PointOf(buf, b) == [row |-> LocAt(buf, b).row, column |-> LocAt(buf, b).column]

\* C19: every ts_tree_edit call describes the splice performed at that step:
\* its start/old end are the bytes replaced in the buffer, its new end is
\* start + len(replacement), and its points are the row/column of those
\* offsets in the buffer before (start, old end) and after (new end) it.
C19_NotifyMatchesSplice ==
    \A i \in DOMAIN notified :
        LET n == notified[i]
            src == versions[i]
            src2 == IF i < Len(versions) THEN versions[i + 1] ELSE newSrc
        IN /\ InText(src, n.start_byte, n.old_end_byte)
           /\ n.new_end_byte = n.start_byte + Len(applied[i].replacement)
           /\ InText(src2, n.start_byte, n.new_end_byte)
           /\ n.start_point = PointOf(src, n.start_byte)
           /\ n.old_end_point = PointOf(src, n.old_end_byte)
           /\ n.new_end_point = PointOf(src2, n.new_end_byte)

\* C20: when the reparse yields no tree, Tree::edit fails with ParseFailure
\* after a single reparse attempt, and the document still holds a live tree.
C20_ParseFailureKeepsTree ==
    (pc = "failed" /\ err = "ParseFailure") =>
        /\ Cardinality({i \in DOMAIN trace : trace[i] = "reparse"}) = 1
        /\ docTree # NoTree
        /\ docTree \in live

TextDelta(r) == Len(r.replacement) - Len(r.old_source)

\* C22: after the adjuster has processed k edits, cumulative_byte_change is
\* the sum of their length changes.
C22_CumulativeIsSum ==
    pc \in {"apply", "reparse", "diff", "done"} =>
        adj.cumulative_byte_change
            = SumOver([i \in DOMAIN applied |-> TextDelta(applied[i])], DOMAIN applied)

\* C23: after each edit, last_width_change is that edit's replacement length
\* minus its old text length, and the next edit's columns are shifted by it
\* exactly when it is non-zero and the next edit starts on last_point.row.
C23_WidthAccumulator ==
    /\ (pc \in {"apply", "reparse", "diff", "done"} /\ applied # <<>>) =>
          adj.last_width_change = TextDelta(applied[Len(applied)])
    /\ \A i \in 1..(Len(applied) - 1) :
          LET w == TextDelta(applied[i])
              shifted == w # 0 /\ applied[i].before.end.row = applied[i + 1].before.start.row
          IN /\ applied[i + 1].after.start.column
                  = applied[i + 1].before.start.column + (IF shifted THEN w ELSE 0)
             /\ applied[i + 1].after.end.column - applied[i + 1].after.start.column
                  = Len(applied[i + 1].replacement)
C23_Witness ==
    /\ pc = "done" /\ Len(applied) >= 2
    /\ applied[2].after.start.column # applied[2].before.start.column

\* C24: each record's after.start is the adjusted start of its edit and
\* after.end is after.start moved by len(replacement) in byte and column, on
\* the same row.
C24_AfterShape ==
    \A j \in DOMAIN applied :
        LET a == applied[j].after  n == Len(applied[j].replacement) IN
        /\ a.start = edits[j].range.start
        /\ a.end = Loc(a.start.row, a.start.column + n, a.start.byte + n)

\* C25: in a successful batch every before, after and changed range has
\* start <= end in bytes, and each after range lies on its before row.
C25_RangesWellFormed ==
    pc = "done" =>
        /\ \A j \in DOMAIN applied :
              LET b == applied[j].before  a == applied[j].after IN
              /\ ~UGt(b.start.byte, b.end.byte)
              /\ ~UGt(a.start.byte, a.end.byte)
              /\ a.start.row = b.start.row /\ a.end.row = b.start.row
        /\ \A i \in DOMAIN changed : ~UGt(changed[i].start.byte, changed[i].end.byte)

\* C26: every edit of a batch that passes validation has
\* range.start.byte < range.end.byte.
C26_AcceptedNonEmpty ==
    pc \in {"apply", "reparse", "diff", "done"} =>
        \A i \in DOMAIN batch : ULt(batch[i].range.start.byte, batch[i].range.end.byte)

\* C27: for a validated batch of ranges inside the buffer, every adjusted
\* range spliced lies inside the current buffer: no out_of_range and no
\* wrapped (negative) offset.
C27_SplicesInRange ==
    /\ err # "out_of_range"
    /\ \A j \in DOMAIN notified :
          /\ notified[j].start_byte >= 0
          /\ notified[j].start_byte <= notified[j].old_end_byte
          /\ notified[j].old_end_byte <= Len(versions[j])

\* C28: the same batch submitted in any order to a document with the same
\* buffer and tree yields the same EditResult and final buffer.
C28_Deterministic ==
    pc = "done" =>
        \A f \in Perms(Len(batch)) :
            EditTreeResult([i \in DOMAIN batch |-> batch[f[i]]], src0, debugBuild,
                           engineRanges)
                = [abort |-> FALSE, ok |-> TRUE, src |-> buffer, applied |-> applied,
                   changed |-> changed]

\* C29: the validation error reported for a batch is the same for every
\* submission order of its edits.
ErrorKind(b) ==
    LET o == SortEdits(b, debugBuild) IN IF o.abort THEN "abort" ELSE CheckEdits(o.order)
C29_ErrorKindOrderFree ==
    \A f \in Perms(Len(batch)) :
        ErrorKind([i \in DOMAIN batch |-> batch[f[i]]]) = ErrorKind(batch)

\* C30: Location <, <=, >, >= are the byte comparisons, and for two
\* locations of the same buffer they agree with the row-major Point order.
C30_OrdersAgree ==
    ovAB # <<>> =>
        /\ ovAB[1] = [lt |-> ovA.byte < ovB.byte, le |-> ovA.byte <= ovB.byte,
                      gt |-> ovA.byte > ovB.byte, ge |-> ovA.byte >= ovB.byte]
        /\ ovAB[1] = ovBA[1]

C30_Witness ==
    /\ ovAB # <<>>
    /\ ovA.row # ovB.row
    /\ ovA.column > ovB.column
    /\ ovA.byte < ovB.byte

====
